---- MODULE Spec2Model ----
(***************************************************************************)
(* Feature reconciliation (tapp.py, eve_wrapper_ext.py) and the detection  *)
(* record structures (CHandGesture.py, CCameraStructs.py) of the EVE SDK   *)
(* interactive test program.                                               *)
(*                                                                         *)
(* A Python dict key that may be absent is modelled as a set of at most    *)
(* one value: {} is "key absent", {v} is "key present with value v".       *)
(***************************************************************************)
EXTENDS Integers, Sequences, FiniteSets, TLC

\* ------------------------------------------------------------------ bounds
\* Number of feature names (a prefix of FeatureOrder) a config file may list.
NumCfgNames == 3
\* Number of pipeline types (a prefix of TypeOrder) the hardware may track.
NumHwTypes == 1

\* ------------------------------------------------------- capability table
\* The pipeline types of type_to_feature, in the order NumHwTypes admits them
\* as types the hardware tracks.
TypeOrder == <<"PT_FD", "PT_HD", "PT_FID", "PT_PD", "PT_LM_FV">>

\* Seeded fault: two pipeline types carry the same feature name.
type_to_feature_Duplicate ==
    [pt \in {"PT_FD", "PT_LM_FV", "PT_FID", "PT_PD", "PT_HD"} |->
        CASE pt = "PT_FD"    -> "face_detection"
          [] pt = "PT_LM_FV" -> "face_validation"
          [] pt = "PT_FID"   -> "face_id"
          [] pt = "PT_PD"    -> "person_detection"
          [] pt = "PT_HD"    -> "face_detection"]

type_to_feature ==
    [pt \in {"PT_FD", "PT_LM_FV", "PT_FID", "PT_PD", "PT_HD"} |->
        CASE pt = "PT_FD"    -> "face_detection"
          [] pt = "PT_LM_FV" -> "face_validation"
          [] pt = "PT_FID"   -> "face_id"
          [] pt = "PT_PD"    -> "person_detection"
          [] pt = "PT_HD"    -> "hand_landmarks"]

PipelineTypes == DOMAIN type_to_feature

TableFeatures == {type_to_feature[pt] : pt \in PipelineTypes}

\* The inverse direction of the table, used by configureFpga.
pipelineFor(f) == CHOOSE pt \in PipelineTypes : type_to_feature[pt] = f

\* Keys of the features dict of run_test_program, in the order the dict lists
\* them; object_detection and face_id_multi have no entry in the capability
\* table.
FeatureOrder ==
    <<"face_detection", "object_detection", "hand_landmarks", "face_id_multi",
      "face_id", "person_detection", "face_validation">>

CfgNames == {FeatureOrder[i] : i \in 1..NumCfgNames}
HwTypes  == {TypeOrder[i] : i \in 1..NumHwTypes}

\* Values the hardware reports for CS_ENABLED and CS_IPS.
EnabledValues == {0, 1}
IpsValues == {15}

Opt(S) == {{}} \cup {{v} : v \in S}

\* One pipeline's settings as poll_settings stores them in _fpgaState.
Settings == [CS_ENABLED : Opt(EnabledValues), CS_IPS : Opt(IpsValues)]

\* Every snapshot a poll can return: a settings map for each tracked pipeline.
Snapshots == UNION {[T -> Settings] : T \in SUBSET HwTypes}

\* A features entry: {"enabled": bool} with an optional "max_ips".
FeatureEntry == [enabled : BOOLEAN, max_ips : Opt(IpsValues)]

\* The features maps config.yaml can give at start-up (no max_ips yet).
InitialFeatures ==
    UNION {[K -> [enabled : BOOLEAN, max_ips : {{}}]] : K \in SUBSET CfgNames}

EmptyMap == [x \in {} |-> {}]

VARIABLES
    features,     \* the desired feature map of run_test_program
    fpgaState,    \* wrapper._fpgaState, the hardware state cache
    fpgaEnabled,  \* wrapper.isFpgaEnabled()
    pc,           \* position of run_test_program / run_configuration_mode
    commands,     \* hardware commands of the latest configureFpga call
    results,      \* per-feature result list of the latest configureFpga call
    pollStatus,   \* "none", "ok" or "timeout": outcome of this cycle's poll
    trace,        \* steps of apply_feature_configuration since the last command
    applied,      \* {} or {the features map of the latest configureFpga call}
    toggled,      \* an explicit toggle operation ran since the latest dispatch
    sameConfig,   \* this cycle's dispatch repeated the configuration before it
    sameCmds,     \* this cycle's dispatch repeated the command sequence before it
    refreshed,    \* some poll_settings call has refreshed the cache
    stable,       \* the latest reconcile pass ran against the snapshot the cache
                  \* holds now, and no toggle operation ran since
    repeated,     \* the latest reconcile pass began with stable true
    configured,   \* {} or {the features map of the latest configure call}
    buffer,       \* {} or {a record buffer handed over for decoding}
    decoded,      \* {} or {the structure read from the buffer}
    encoded,      \* {} or {the bytes of the decoded structure, as words}
    readerIdx,    \* getFpgaState: index into type_to_feature.items()
    readerPhase,  \* getFpgaState: "check", "fetch", "done" or "raised"
    features_state, \* getFpgaState: the dict built so far
    seen          \* snapshots the cache has held during the getFpgaState call

codecVars == <<buffer, decoded, encoded>>

readerVars == <<readerIdx, readerPhase, features_state, seen>>

vars == <<features, fpgaState, fpgaEnabled, pc, commands, results, pollStatus,
          trace, applied, toggled, sameConfig, sameCmds, refreshed, stable,
          repeated, configured, buffer,
          decoded, encoded, readerIdx, readerPhase, features_state, seen>>

\* ------------------------------------------------------------ getFpgaState
\* Seeded fault: a pipeline without a CS_ENABLED value counts as enabled.
enabled_value_DefaultOne(feature_settings) ==
    IF feature_settings.CS_ENABLED = {} THEN 1
    ELSE CHOOSE v \in feature_settings.CS_ENABLED : TRUE

\* feature_settings.get(CS_ENABLED, 0)
enabled_value(feature_settings) ==
    IF feature_settings.CS_ENABLED = {} THEN 0
    ELSE CHOOSE v \in feature_settings.CS_ENABLED : TRUE

\* bool(enabled_value)
bool(v) == v # 0

\* Seeded fault: getFpgaState without "if pipeline_type in self._fpgaState",
\* reading an untracked pipeline as an empty settings dict.
getFpgaState_NoPresenceCheck(cache) ==
    [f \in TableFeatures |->
        IF pipelineFor(f) \in DOMAIN cache
        THEN [enabled |-> bool(enabled_value(cache[pipelineFor(f)])),
              max_ips |-> cache[pipelineFor(f)].CS_IPS]
        ELSE [enabled |-> FALSE, max_ips |-> {}]]

\* The features_state dict getFpgaState builds from the cache.
getFpgaState(cache) ==
    [f \in {type_to_feature[pt] : pt \in PipelineTypes \cap DOMAIN cache} |->
        [enabled |-> bool(enabled_value(cache[pipelineFor(f)])),
         max_ips |-> cache[pipelineFor(f)].CS_IPS]]

\* Seeded fault: the update loop without its "if 'max_ips' in state" branch.
UpdateFeatures_SkipsMaxIps(desired, actual_state) ==
    [f \in DOMAIN desired |->
        IF f \in DOMAIN actual_state
        THEN [desired[f] EXCEPT !.enabled = actual_state[f].enabled]
        ELSE desired[f]]

\* Seeded fault: the update loop negates the enabled flag of every feature
\* the hardware reports as off, instead of assigning the reported value.
UpdateFeatures_FlipsWhenOff(desired, actual_state) ==
    [f \in DOMAIN desired |->
        IF f \in DOMAIN actual_state
        THEN [enabled |-> IF actual_state[f].enabled THEN TRUE
                          ELSE ~desired[f].enabled,
              max_ips |-> IF actual_state[f].max_ips # {}
                          THEN actual_state[f].max_ips
                          ELSE desired[f].max_ips]
        ELSE desired[f]]

\* Seeded fault: the update loop replaces the whole entry by the reported
\* state instead of assigning its keys.
UpdateFeatures_ReplacesEntry(desired, actual_state) ==
    [f \in DOMAIN desired |->
        IF f \in DOMAIN actual_state THEN actual_state[f] ELSE desired[f]]

\* The update loop of apply_feature_configuration over actual_state.
UpdateFeatures(desired, actual_state) ==
    [f \in DOMAIN desired |->
        IF f \in DOMAIN actual_state
        THEN [enabled |-> actual_state[f].enabled,
              max_ips |-> IF actual_state[f].max_ips # {}
                          THEN actual_state[f].max_ips
                          ELSE desired[f].max_ips]
        ELSE desired[f]]

\* ------------------------------------------------------------ configureFpga
Cmd(pt, st, v) == [pipeline |-> pt, setting |-> st, value |-> v]

\* The commands one feature of the desired map translates to.
CommandsFor(f, entry) ==
    IF f \in TableFeatures
    THEN <<Cmd(pipelineFor(f), "CS_ENABLED", IF entry.enabled THEN 1 ELSE 0)>>
         \o (IF entry.max_ips = {} THEN <<>>
             ELSE <<Cmd(pipelineFor(f), "CS_IPS",
                        CHOOSE v \in entry.max_ips : TRUE)>>)
    ELSE <<>>

RECURSIVE CommandsFrom(_, _)
CommandsFrom(i, desired) ==
    IF i > Len(FeatureOrder) THEN <<>>
    ELSE (IF FeatureOrder[i] \in DOMAIN desired
          THEN CommandsFor(FeatureOrder[i], desired[FeatureOrder[i]])
          ELSE <<>>) \o CommandsFrom(i + 1, desired)

\* What the hardware-write collaborator answers for one feature's commands.
WriteOutcomes == {"Accepted", "Rejected", "Timeout"}

\* The commands of a batch that ends with the first feature of stopAt.
RECURSIVE CommandsUntil(_, _, _)
CommandsUntil(i, desired, stopAt) ==
    IF i > Len(FeatureOrder) THEN <<>>
    ELSE IF FeatureOrder[i] \notin DOMAIN desired
         THEN CommandsUntil(i + 1, desired, stopAt)
         ELSE CommandsFor(FeatureOrder[i], desired[FeatureOrder[i]])
              \o (IF FeatureOrder[i] \in stopAt THEN <<>>
                  ELSE CommandsUntil(i + 1, desired, stopAt))

\* Seeded fault: the first refused write ends the batch.
configureFpga_AbortsOnRefusal(desired, outcome) ==
    [commands |-> CommandsUntil(1, desired,
                     {f \in DOMAIN outcome : outcome[f] # "Accepted"}),
     results  |-> [f \in DOMAIN desired |->
                     IF f \in TableFeatures THEN outcome[f]
                     ELSE "UnknownFeature"]]

\* Seeded fault: a feature without a table entry ends the batch.
configureFpga_StopsAtUnknown(desired, outcome) ==
    [commands |-> CommandsUntil(1, desired, DOMAIN desired \ TableFeatures),
     results  |-> [f \in DOMAIN desired |->
                     IF f \in TableFeatures THEN outcome[f]
                     ELSE "UnknownFeature"]]

\* Seeded fault: only the settings that differ from the cached snapshot are
\* written.
configureFpga_OnlyChanged(desired, outcome) ==
    [commands |-> SelectSeq(CommandsFrom(1, desired),
                     LAMBDA c : ~(/\ c.pipeline \in DOMAIN fpgaState
                                  /\ fpgaState[c.pipeline][c.setting] = {c.value})),
     results  |-> [f \in DOMAIN desired |->
                     IF f \in TableFeatures THEN outcome[f]
                     ELSE "UnknownFeature"]]

\* configureFpga(desired): every feature of the map, in the map's order, is
\* translated and dispatched; a feature without a table entry is reported as
\* UnknownFeature and skipped, a refused write is reported and the batch
\* goes on. outcome[f] is the collaborator's answer for feature f.
configureFpga(desired, outcome) ==
    [commands |-> CommandsFrom(1, desired),
     results  |-> [f \in DOMAIN desired |->
                     IF f \in TableFeatures THEN outcome[f]
                     ELSE "UnknownFeature"]]

\* ----------------------------------------------------------------- toggles
\* Seeded fault: toggle_feature switches the feature on instead of negating
\* its state.
toggle_feature_Enables(desired, feature_key) ==
    IF feature_key \in DOMAIN desired
    THEN [desired EXCEPT ![feature_key].enabled = TRUE]
    ELSE desired

\* The value toggle_feature returns.
toggle_feature_returns(desired, feature_key) == feature_key \in DOMAIN desired

toggle_feature(desired, feature_key) ==
    IF feature_key \in DOMAIN desired
    THEN [desired EXCEPT ![feature_key].enabled = ~desired[feature_key].enabled]
    ELSE desired

enable_all_features(desired) ==
    [f \in DOMAIN desired |-> [desired[f] EXCEPT !.enabled = TRUE]]

disable_all_features(desired) ==
    [f \in DOMAIN desired |-> [desired[f] EXCEPT !.enabled = FALSE]]

reset_to_defaults(desired, default_features) ==
    [f \in DOMAIN desired |->
        IF f \in DOMAIN default_features
        THEN [desired[f] EXCEPT !.enabled = default_features[f]]
        ELSE desired[f]]

\* The "enabled" values reset_to_defaults can read from config.yaml: the file
\* the features map was loaded from, with every entry rewritten or without a
\* features section.
DefaultFeatures(desired) == [DOMAIN desired -> BOOLEAN] \cup {EmptyMap}

\* -------------------------------------------------------------------- Init
\* No getFpgaState call is being followed statement by statement.
NoReader ==
    /\ readerIdx = 0
    /\ readerPhase = "done"
    /\ features_state = EmptyMap
    /\ seen = {}

\* Seeded fault: the cache starts with an entry per tracked pipeline type,
\* filled with assumed hardware defaults.
InitialFpgaState_Defaults ==
    [pt \in HwTypes |-> [CS_ENABLED |-> {0}, CS_IPS |-> {}]]

\* wrapper._fpgaState before the first poll_settings: the explicit empty
\* snapshot.
InitialFpgaState == EmptyMap

Init ==
    /\ features \in InitialFeatures
    /\ fpgaState = InitialFpgaState
    /\ refreshed = FALSE
    /\ stable = FALSE
    /\ repeated = FALSE
    /\ configured = {}
    /\ fpgaEnabled \in BOOLEAN
    /\ pc = "start"
    /\ commands = <<>>
    /\ results = EmptyMap
    /\ pollStatus = "none"
    /\ trace = <<>>
    /\ applied = {}
    /\ toggled = FALSE
    /\ sameConfig = FALSE
    /\ sameCmds = FALSE
    /\ buffer = {}
    /\ decoded = {}
    /\ encoded = {}
    /\ NoReader

\* ----------------------------------------------------------------- actions
\* wrapper.configureFpga(features): dispatch every command, collect results.
Dispatch ==
    \E outcome \in [DOMAIN features \cap TableFeatures -> WriteOutcomes] :
        LET call == configureFpga(features, outcome) IN
        /\ commands' = call.commands
        /\ results' = call.results
        /\ applied' = {features}
        /\ sameConfig' = (applied = {features} /\ ~toggled)
        /\ sameCmds' = (applied # {} /\ call.commands = commands)
        /\ toggled' = FALSE
        /\ trace' = Append(trace, "dispatch")

\* run_test_program, "Configure features from config", FPGA branch.
StartupConfigureFpga ==
    /\ pc = "start"
    /\ fpgaEnabled
    /\ Dispatch
    /\ pc' = "menu"
    /\ UNCHANGED <<features, fpgaState, fpgaEnabled, pollStatus>>
    /\ UNCHANGED refreshed
    /\ UNCHANGED <<stable, repeated, configured>>
    /\ UNCHANGED codecVars
    /\ UNCHANGED readerVars

\* run_test_program, "Configure features from config", software branch.
StartupConfigure ==
    /\ pc = "start"
    /\ ~fpgaEnabled
    /\ pc' = "menu"
    /\ UNCHANGED <<features, fpgaState, fpgaEnabled, commands, results,
                   pollStatus, trace, applied, toggled, sameConfig, sameCmds>>
    /\ UNCHANGED refreshed
    /\ configured' = {features}
    /\ UNCHANGED <<stable, repeated>>
    /\ UNCHANGED codecVars
    /\ UNCHANGED readerVars

\* Seeded fault: a command is read and its toggle applied while the cycle
\* of the previous command is still in its settle wait.
EnterApply_Reentrant(newFeatures, isToggle) ==
    /\ pc \in {"menu", "sleep"}
    /\ features' = newFeatures
    /\ toggled' = (toggled \/ isToggle)
    /\ pc' = "apply"
    /\ trace' = <<>>
    /\ pollStatus' = "none"
    /\ UNCHANGED <<fpgaState, fpgaEnabled, commands, results, applied,
                   sameConfig, sameCmds>>
    /\ UNCHANGED refreshed
    /\ stable' = (stable /\ ~isToggle)
    /\ repeated' = FALSE
    /\ UNCHANGED configured
    /\ UNCHANGED codecVars
    /\ UNCHANGED readerVars

\* A command of run_configuration_mode changed (or not) the features map and
\* now calls apply_feature_configuration.
EnterApply(newFeatures, isToggle) ==
    /\ pc = "menu"
    /\ features' = newFeatures
    /\ toggled' = (toggled \/ isToggle)
    /\ pc' = "apply"
    /\ trace' = <<>>
    /\ pollStatus' = "none"
    /\ UNCHANGED <<fpgaState, fpgaEnabled, commands, results, applied,
                   sameConfig, sameCmds>>
    /\ UNCHANGED refreshed
    /\ stable' = (stable /\ ~isToggle)
    /\ repeated' = FALSE
    /\ UNCHANGED configured
    /\ UNCHANGED codecVars
    /\ UNCHANGED readerVars

\* cmd '1'..'7': toggle_feature(key); apply_feature_configuration()
CmdToggle(feature_key) ==
    EnterApply(toggle_feature(features, feature_key),
               feature_key \in DOMAIN features)

\* cmd 'a'
CmdEnableAll == EnterApply(enable_all_features(features), TRUE)

\* cmd 'd'
CmdDisableAll == EnterApply(disable_all_features(features), TRUE)

\* cmd 'r': reset_to_defaults(); apply_feature_configuration(). A read that
\* raises leaves the map as it is, like a file without a features section.
CmdReset ==
    \E default_features \in DefaultFeatures(features) :
        EnterApply(reset_to_defaults(features, default_features), TRUE)

\* Seeded fault: poll_settings() right after configureFpga, no time.sleep.
ApplyConfigureFpga_NoSettle ==
    /\ pc = "apply"
    /\ fpgaEnabled
    /\ Dispatch
    /\ pc' = "poll"
    /\ UNCHANGED <<features, fpgaState, fpgaEnabled, pollStatus>>
    /\ UNCHANGED refreshed
    /\ UNCHANGED <<stable, repeated, configured>>
    /\ UNCHANGED codecVars
    /\ UNCHANGED readerVars

\* apply_feature_configuration, FPGA branch: wrapper.configureFpga(features)
ApplyConfigureFpga ==
    /\ pc = "apply"
    /\ fpgaEnabled
    /\ Dispatch
    /\ pc' = "sleep"
    /\ UNCHANGED <<features, fpgaState, fpgaEnabled, pollStatus>>
    /\ UNCHANGED refreshed
    /\ UNCHANGED <<stable, repeated, configured>>
    /\ UNCHANGED codecVars
    /\ UNCHANGED readerVars

\* Seeded fault: the software path switches off, in the caller's map, the
\* features it has no pipeline for.
ApplyConfigure_DropsUnknown ==
    /\ pc = "apply"
    /\ ~fpgaEnabled
    /\ pc' = "menu"
    /\ trace' = Append(trace, "configure")
    /\ features' = [f \in DOMAIN features |->
                      IF f \in TableFeatures THEN features[f]
                      ELSE [features[f] EXCEPT !.enabled = FALSE]]
    /\ UNCHANGED <<fpgaState, fpgaEnabled, commands, results,
                   pollStatus, applied, toggled, sameConfig, sameCmds>>
    /\ UNCHANGED refreshed
    /\ configured' = {features}
    /\ UNCHANGED <<stable, repeated>>
    /\ UNCHANGED codecVars
    /\ UNCHANGED readerVars

\* Seeded fault: the software branch goes on to the settle wait, the poll
\* and the reconcile pass of the FPGA branch.
ApplyConfigure_ThenPolls ==
    /\ pc = "apply"
    /\ ~fpgaEnabled
    /\ pc' = "sleep"
    /\ trace' = Append(trace, "configure")
    /\ configured' = {features}
    /\ UNCHANGED <<features, fpgaState, fpgaEnabled, commands, results,
                   pollStatus, applied, toggled, sameConfig, sameCmds>>
    /\ UNCHANGED refreshed
    /\ UNCHANGED <<stable, repeated>>
    /\ UNCHANGED codecVars
    /\ UNCHANGED readerVars

\* apply_feature_configuration, software branch: wrapper.configure(features)
ApplyConfigure ==
    /\ pc = "apply"
    /\ ~fpgaEnabled
    /\ pc' = "menu"
    /\ trace' = Append(trace, "configure")
    /\ UNCHANGED <<features, fpgaState, fpgaEnabled, commands, results,
                   pollStatus, applied, toggled, sameConfig, sameCmds>>
    /\ UNCHANGED refreshed
    /\ configured' = {features}
    /\ UNCHANGED <<stable, repeated>>
    /\ UNCHANGED codecVars
    /\ UNCHANGED readerVars

\* Seeded fault: the settle wait drops from the cache the pipelines that
\* were just commanded, as if their cached values were invalidated.
ApplySleep_InvalidatesCache ==
    /\ pc = "sleep"
    /\ pc' = "poll"
    /\ results' = EmptyMap
    /\ trace' = Append(trace, "settle")
    /\ fpgaState' = [pt \in DOMAIN fpgaState \
                        {commands[i].pipeline : i \in 1..Len(commands)} |->
                        fpgaState[pt]]
    /\ UNCHANGED <<features, fpgaEnabled, commands, pollStatus,
                   applied, toggled, sameConfig, sameCmds>>
    /\ UNCHANGED refreshed
    /\ UNCHANGED <<stable, repeated, configured>>
    /\ UNCHANGED codecVars
    /\ UNCHANGED readerVars

\* time.sleep(0.2); the result list of configureFpga was not kept.
ApplySleep ==
    /\ pc = "sleep"
    /\ pc' = "poll"
    /\ results' = EmptyMap
    /\ trace' = Append(trace, "settle")
    /\ UNCHANGED <<features, fpgaState, fpgaEnabled, commands, pollStatus,
                   applied, toggled, sameConfig, sameCmds>>
    /\ UNCHANGED refreshed
    /\ UNCHANGED <<stable, repeated, configured>>
    /\ UNCHANGED codecVars
    /\ UNCHANGED readerVars

\* wrapper.poll_settings() refreshes the cache wholesale.
ApplyPollOk ==
    /\ pc = "poll"
    /\ \E snapshot \in Snapshots : fpgaState' = snapshot
    /\ pollStatus' = "ok"
    /\ pc' = "reconcile"
    /\ trace' = Append(trace, "poll")
    /\ sameConfig' = FALSE
    /\ sameCmds' = FALSE
    /\ refreshed' = TRUE
    /\ stable' = (stable /\ fpgaState' = fpgaState)
    /\ UNCHANGED <<repeated, configured>>
    /\ UNCHANGED <<features, fpgaEnabled, commands, results, applied, toggled>>
    /\ UNCHANGED codecVars
    /\ UNCHANGED readerVars

\* Seeded fault: a poll that timed out waits again and polls again, without
\* a limit.
ApplyPollTimeout_Retries ==
    /\ pc = "poll"
    /\ pollStatus' = "timeout"
    /\ pc' = "sleep"
    /\ trace' = <<"dispatch">>
    /\ sameConfig' = FALSE
    /\ sameCmds' = FALSE
    /\ UNCHANGED <<features, fpgaState, fpgaEnabled, commands, results,
                   applied, toggled>>
    /\ UNCHANGED refreshed
    /\ UNCHANGED <<stable, repeated, configured>>
    /\ UNCHANGED codecVars
    /\ UNCHANGED readerVars

\* wrapper.poll_settings() times out and returns; the cache is not refreshed
\* and apply_feature_configuration goes on to the next statement.
ApplyPollTimeout ==
    /\ pc = "poll"
    /\ pollStatus' = "timeout"
    /\ pc' = "reconcile"
    /\ trace' = Append(trace, "poll")
    /\ sameConfig' = FALSE
    /\ sameCmds' = FALSE
    /\ UNCHANGED <<features, fpgaState, fpgaEnabled, commands, results,
                   applied, toggled>>
    /\ UNCHANGED refreshed
    /\ UNCHANGED <<stable, repeated, configured>>
    /\ UNCHANGED codecVars
    /\ UNCHANGED readerVars

\* Seeded fault: no except clause; the exception of poll_settings leaves
\* run_configuration_mode.
ApplyPollRaises_Propagates ==
    /\ pc = "poll"
    /\ pollStatus' = "timeout"
    /\ pc' = "terminated"
    /\ trace' = Append(trace, "poll")
    /\ sameConfig' = FALSE
    /\ sameCmds' = FALSE
    /\ UNCHANGED <<features, fpgaState, fpgaEnabled, commands, results,
                   applied, toggled>>
    /\ UNCHANGED refreshed
    /\ UNCHANGED <<stable, repeated, configured>>
    /\ UNCHANGED codecVars
    /\ UNCHANGED readerVars

\* wrapper.poll_settings() raises; the except clause ends the call.
ApplyPollRaises ==
    /\ pc = "poll"
    /\ pollStatus' = "timeout"
    /\ pc' = "menu"
    /\ trace' = Append(trace, "poll")
    /\ sameConfig' = FALSE
    /\ sameCmds' = FALSE
    /\ UNCHANGED <<features, fpgaState, fpgaEnabled, commands, results,
                   applied, toggled>>
    /\ UNCHANGED refreshed
    /\ UNCHANGED <<stable, repeated, configured>>
    /\ UNCHANGED codecVars
    /\ UNCHANGED readerVars

\* actual_state = wrapper.getFpgaState() and the update loop over it.
ApplyReconcile ==
    /\ pc = "reconcile"
    /\ features' = UpdateFeatures(features, getFpgaState(fpgaState))
    /\ pc' = "menu"
    /\ trace' = Append(trace, "reconcile")
    /\ UNCHANGED <<fpgaState, fpgaEnabled, commands, results, pollStatus,
                   applied, toggled, sameConfig, sameCmds>>
    /\ UNCHANGED refreshed
    /\ stable' = TRUE
    /\ repeated' = stable
    /\ UNCHANGED configured
    /\ UNCHANGED codecVars
    /\ UNCHANGED readerVars

Next ==
    \/ StartupConfigureFpga
    \/ StartupConfigure
    \/ \E i \in 1..Len(FeatureOrder) : CmdToggle(FeatureOrder[i])
    \/ CmdEnableAll
    \/ CmdDisableAll
    \/ CmdReset
    \/ ApplyConfigureFpga
    \/ ApplyConfigure
    \/ ApplySleep
    \/ ApplyPollOk
    \/ ApplyPollTimeout
    \/ ApplyPollRaises
    \/ ApplyReconcile

Spec == Init /\ [][Next]_vars

\* Every statement of apply_feature_configuration is followed by the next
\* one: configureFpga, configure and sleep return, poll_settings returns,
\* times out or raises, and the update loop ends.
Fairness ==
    /\ WF_vars(ApplyConfigureFpga)
    /\ WF_vars(ApplyConfigure)
    /\ WF_vars(ApplySleep)
    /\ WF_vars(ApplyPollOk \/ ApplyPollTimeout \/ ApplyPollRaises)
    /\ WF_vars(ApplyReconcile)

\* The default of config.get('features', {...}): the map run_test_program
\* starts with when config.yaml has no features section.
DefaultEnabled(f) == f \in {"face_detection", "person_detection", "hand_landmarks"}

InitLive ==
    /\ Init
    /\ features = [f \in CfgNames |->
                      [enabled |-> DefaultEnabled(f), max_ips |-> {}]]

SpecLive == InitLive /\ [][Next]_vars /\ Fairness

TypeOK ==
    /\ DOMAIN features \subseteq CfgNames
    /\ \A f \in DOMAIN features : features[f] \in FeatureEntry
    /\ DOMAIN fpgaState \subseteq PipelineTypes
    /\ \A pt \in DOMAIN fpgaState : fpgaState[pt] \in Settings
    /\ pc \in {"start", "menu", "apply", "sleep", "poll", "reconcile", "codec",
              "reader", "toggle"}
    /\ pollStatus \in {"none", "ok", "timeout"}

\* ======================================================= detection records
\* A buffer is a sequence of 32-bit words, a word four bytes, least
\* significant first. Every field of the structures below is four bytes wide,
\* so the fields follow each other without padding.

\* Number of leading array elements the sampled buffers fill with data.
NumFilled == 1

EVE_MAX_HAND_DETECTIONS == 8
EVE_MAX_DYNAMIC_GESTURE_SEQUENCE == 8
EVE_HAND_LANDMARK_SIZE == 11
EVE_STATIC_GESTURE_SIZE == 23
EVE_DYNAMIC_GESTURE_SIZE == 20

\* The members of the CtypesEnum classes (the _SIZE names are members too).
EveGestureQuality == 0..2
EveStaticGestureType == 0..EVE_STATIC_GESTURE_SIZE
EveDynamicGestureType == 0..EVE_DYNAMIC_GESTURE_SIZE
EveCompare == 0..2

\* The members of class EveStaticGestureType, each name with its value.
EveStaticGestureTypeMembers ==
    [EVE_STATIC_GESTURE_NONE |-> 0, EVE_OPEN_HAND |-> 1,
     EVE_OPEN_HAND_LEFT |-> 2, EVE_OPEN_HAND_RIGHT |-> 3,
     EVE_CLOSED_HAND |-> 4, EVE_POINT_UP |-> 5, EVE_POINT_DOWN |-> 6,
     EVE_PINCH |-> 7, EVE_THUMBS_UP |-> 8, EVE_THUMBS_DOWN |-> 9,
     EVE_THUMBS_LEFT |-> 10, EVE_THUMBS_RIGHT |-> 11,
     EVE_RESERVED_STATIC_GESTURE_1 |-> 12,
     EVE_CUSTOM_STATIC_GESTURE_1 |-> 13, EVE_CUSTOM_STATIC_GESTURE_2 |-> 14,
     EVE_CUSTOM_STATIC_GESTURE_3 |-> 15, EVE_CUSTOM_STATIC_GESTURE_4 |-> 16,
     EVE_CUSTOM_STATIC_GESTURE_5 |-> 17, EVE_CUSTOM_STATIC_GESTURE_6 |-> 18,
     EVE_CUSTOM_STATIC_GESTURE_7 |-> 19, EVE_CUSTOM_STATIC_GESTURE_8 |-> 20,
     EVE_CUSTOM_STATIC_GESTURE_9 |-> 21, EVE_CUSTOM_STATIC_GESTURE_10 |-> 22,
     EVE_STATIC_GESTURE_SIZE |-> 23]

\* The members of class EveDynamicGestureType, each name with its value.
EveDynamicGestureTypeMembers ==
    [EVE_DYNAMIC_GESTURE_NONE |-> 0, EVE_GRAB |-> 1, EVE_FLICK_UP |-> 2,
     EVE_CLICK |-> 3,
     EVE_RESERVED_DYNAMIC_GESTURE_1 |-> 4, EVE_RESERVED_DYNAMIC_GESTURE_2 |-> 5,
     EVE_RESERVED_DYNAMIC_GESTURE_3 |-> 6, EVE_RESERVED_DYNAMIC_GESTURE_4 |-> 7,
     EVE_RESERVED_DYNAMIC_GESTURE_5 |-> 8, EVE_RESERVED_DYNAMIC_GESTURE_6 |-> 9,
     EVE_CUSTOM_DYNAMIC_GESTURE_1 |-> 10, EVE_CUSTOM_DYNAMIC_GESTURE_2 |-> 11,
     EVE_CUSTOM_DYNAMIC_GESTURE_3 |-> 12, EVE_CUSTOM_DYNAMIC_GESTURE_4 |-> 13,
     EVE_CUSTOM_DYNAMIC_GESTURE_5 |-> 14, EVE_CUSTOM_DYNAMIC_GESTURE_6 |-> 15,
     EVE_CUSTOM_DYNAMIC_GESTURE_7 |-> 16, EVE_CUSTOM_DYNAMIC_GESTURE_8 |-> 17,
     EVE_CUSTOM_DYNAMIC_GESTURE_9 |-> 18, EVE_CUSTOM_DYNAMIC_GESTURE_10 |-> 19,
     EVE_DYNAMIC_GESTURE_SIZE |-> 20]

\* ctypes.c_uint read from a word (the samples keep the top bit clear).
c_uint(w) == w[1] + 256 * w[2] + 65536 * w[3] + 16777216 * w[4]

\* ctypes.c_int read from a word: two's complement.
c_int(w) ==
    IF w[4] < 128 THEN c_uint(w)
    ELSE (w[1] + 256 * w[2] + 65536 * w[3] + 16777216 * (w[4] - 128))
         - 2147483647 - 1

\* ctypes.c_float: the value is kept as its IEEE-754 bit pattern.
c_float(w) == w

Slice(words, first, n) == SubSeq(words, first, first + n - 1)

\* Words of the structures of CBasicStructs used below.
WordsCPoint2f == 2
WordsCRect == 4
WordsCResolution == 2

WordsEveStaticGesture == 5
WordsEveDynamicGesture == 4
WordsEveSingleHandDetection == 33

EveStaticGesture(w) ==
    [handId |-> c_int(w[1]), isMainUserHand |-> c_int(w[2]),
     type |-> c_int(w[3]), confidence |-> c_float(w[4]),
     quality |-> c_int(w[5])]

EveStaticGestures(w) ==
    [count |-> c_uint(w[1]),
     gestures |-> [i \in 1..EVE_MAX_HAND_DETECTIONS |->
        EveStaticGesture(Slice(w, 2 + WordsEveStaticGesture * (i - 1),
                               WordsEveStaticGesture))]]

EveDynamicGesture(w) ==
    [handId |-> c_int(w[1]), isMainUserHand |-> c_int(w[2]),
     type |-> c_int(w[3]), quality |-> c_int(w[4])]

EveDynamicGestures(w) ==
    [count |-> c_uint(w[1]),
     gestures |-> [i \in 1..EVE_MAX_HAND_DETECTIONS |->
        EveDynamicGesture(Slice(w, 2 + WordsEveDynamicGesture * (i - 1),
                                WordsEveDynamicGesture))]]

EveDynamicGestureDefinition(w) ==
    [gestureType |-> c_int(w[1]),
     sequenceCount |-> c_uint(w[2]),
     gestureSequence |-> [i \in 1..EVE_MAX_DYNAMIC_GESTURE_SEQUENCE |->
        c_int(w[2 + i])]]

EveSingleHandDetection(w) ==
    [id |-> c_int(w[1]),
     boundingBox |-> Slice(w, 2, WordsCRect),
     boundingBoxScore |-> c_float(w[2 + WordsCRect]),
     landmarksICS |-> Slice(w, 3 + WordsCRect,
                            WordsCPoint2f * EVE_HAND_LANDMARK_SIZE),
     validationScore |-> c_float(w[WordsEveSingleHandDetection - 4]),
     inPlaneAngle |-> c_float(w[WordsEveSingleHandDetection - 3]),
     depth |-> c_float(w[WordsEveSingleHandDetection - 2]),
     isMainUserHand |-> c_int(w[WordsEveSingleHandDetection - 1]),
     isInCurrentFrame |-> c_int(w[WordsEveSingleHandDetection])]

EveHandDetections(w) ==
    [status |-> c_int(w[1]),
     hasFaceROI |-> c_int(w[2]),
     faceROI |-> Slice(w, 3, WordsCRect),
     detectedHandCount |-> c_uint(w[3 + WordsCRect]),
     hands |-> [i \in 1..EVE_MAX_HAND_DETECTIONS |->
        EveSingleHandDetection(
            Slice(w, 4 + WordsCRect + WordsEveSingleHandDetection * (i - 1),
                  WordsEveSingleHandDetection))]]

CCameraFormat(w) ==
    [resolution |-> Slice(w, 1, WordsCResolution),
     format |-> c_int(w[1 + WordsCResolution]),
     fps |-> c_float(w[2 + WordsCResolution]),
     compareResolution |-> c_int(w[3 + WordsCResolution]),
     compareFps |-> c_int(w[4 + WordsCResolution])]

CAMERA_PID_VID_SIZE == 8
CAMERA_NAME_SIZE == 64

WordsCCamera == 4 + (2 * CAMERA_PID_VID_SIZE + CAMERA_NAME_SIZE) \div 4

\* ctypes.c_byte read from one byte: two's complement.
c_byte(b) == IF b < 128 THEN b ELSE b - 256

\* Byte k of a sequence of words.
ByteAt(words, k) == words[((k - 1) \div 4) + 1][((k - 1) % 4) + 1]

\* A (c_byte * n) array starting at byte first + 1 of the words.
ByteArray(words, first, n) == [k \in 1..n |-> c_byte(ByteAt(words, first + k))]

CCamera(w) ==
    [id |-> c_int(w[1]),
     pid |-> ByteArray(w, 4, CAMERA_PID_VID_SIZE),
     vid |-> ByteArray(w, 4 + CAMERA_PID_VID_SIZE, CAMERA_PID_VID_SIZE),
     name |-> ByteArray(w, 4 + 2 * CAMERA_PID_VID_SIZE, CAMERA_NAME_SIZE),
     isHardwareCamera |-> c_uint(w[WordsCCamera - 2]),
     isFpgaCamera |-> c_uint(w[WordsCCamera - 1]),
     isIrCamera |-> c_uint(w[WordsCCamera])]

\* ------------------------------------------------ the bytes of a structure
\* The four bytes of a c_uint or c_int field, least significant first
\* (\div rounds down and % is never negative, which gives two's complement).
bytes_c_uint(v) ==
    <<v % 256, (v \div 256) % 256, (v \div 65536) % 256,
      (v \div 16777216) % 256>>

bytes_c_int(v) == bytes_c_uint(v)

bytes_c_float(x) == x

\* Seeded fault: a c_byte written as its signed value.
bytes_c_byte_Signed(v) == v

\* The byte of a c_byte field.
bytes_c_byte(v) == IF v >= 0 THEN v ELSE v + 256

RECURSIVE Concat(_)
Concat(seqs) == IF seqs = <<>> THEN <<>> ELSE Head(seqs) \o Concat(Tail(seqs))

\* The words of a (c_byte * n) array, n a multiple of four.
bytes_ByteArray(a) ==
    [i \in 1..(Len(a) \div 4) |->
        [j \in 1..4 |-> bytes_c_byte(a[4 * (i - 1) + j])]]

bytes_EveStaticGesture(r) ==
    <<bytes_c_int(r.handId), bytes_c_int(r.isMainUserHand),
      bytes_c_int(r.type), bytes_c_float(r.confidence),
      bytes_c_int(r.quality)>>

bytes_EveStaticGestures(r) ==
    <<bytes_c_uint(r.count)>>
    \o Concat([i \in 1..EVE_MAX_HAND_DETECTIONS |->
                  bytes_EveStaticGesture(r.gestures[i])])

bytes_EveDynamicGesture(r) ==
    <<bytes_c_int(r.handId), bytes_c_int(r.isMainUserHand),
      bytes_c_int(r.type), bytes_c_int(r.quality)>>

bytes_EveDynamicGestures(r) ==
    <<bytes_c_uint(r.count)>>
    \o Concat([i \in 1..EVE_MAX_HAND_DETECTIONS |->
                  bytes_EveDynamicGesture(r.gestures[i])])

bytes_EveDynamicGestureDefinition(r) ==
    <<bytes_c_int(r.gestureType), bytes_c_uint(r.sequenceCount)>>
    \o [i \in 1..EVE_MAX_DYNAMIC_GESTURE_SEQUENCE |->
           bytes_c_int(r.gestureSequence[i])]

bytes_EveSingleHandDetection(r) ==
    <<bytes_c_int(r.id)>> \o r.boundingBox
    \o <<bytes_c_float(r.boundingBoxScore)>> \o r.landmarksICS
    \o <<bytes_c_float(r.validationScore), bytes_c_float(r.inPlaneAngle),
         bytes_c_float(r.depth), bytes_c_int(r.isMainUserHand),
         bytes_c_int(r.isInCurrentFrame)>>

bytes_EveHandDetections(r) ==
    <<bytes_c_int(r.status), bytes_c_int(r.hasFaceROI)>> \o r.faceROI
    \o <<bytes_c_uint(r.detectedHandCount)>>
    \o Concat([i \in 1..EVE_MAX_HAND_DETECTIONS |->
                  bytes_EveSingleHandDetection(r.hands[i])])

bytes_CCameraFormat(r) ==
    r.resolution
    \o <<bytes_c_int(r.format), bytes_c_float(r.fps),
         bytes_c_int(r.compareResolution), bytes_c_int(r.compareFps)>>

bytes_CCamera(r) ==
    <<bytes_c_int(r.id)>>
    \o bytes_ByteArray(r.pid) \o bytes_ByteArray(r.vid)
    \o bytes_ByteArray(r.name)
    \o <<bytes_c_uint(r.isHardwareCamera), bytes_c_uint(r.isFpgaCamera),
         bytes_c_uint(r.isIrCamera)>>

\* bytes(structure) for a structure of the given kind.
bytes(kind, record) ==
    CASE kind = "EveStaticGestures" -> bytes_EveStaticGestures(record)
      [] kind = "EveDynamicGestures" -> bytes_EveDynamicGestures(record)
      [] kind = "EveDynamicGestureDefinition" ->
            bytes_EveDynamicGestureDefinition(record)
      [] kind = "EveHandDetections" -> bytes_EveHandDetections(record)
      [] kind = "CCameraFormat" -> bytes_CCameraFormat(record)
      [] kind = "CCamera" -> bytes_CCamera(record)

RecordKinds ==
    {"EveStaticGestures", "EveDynamicGestures", "EveDynamicGestureDefinition",
     "EveHandDetections", "CCameraFormat", "CCamera"}

\* Length in words of a buffer of each kind.
WordsOf(kind) ==
    CASE kind = "EveStaticGestures" ->
            1 + WordsEveStaticGesture * EVE_MAX_HAND_DETECTIONS
      [] kind = "EveDynamicGestures" ->
            1 + WordsEveDynamicGesture * EVE_MAX_HAND_DETECTIONS
      [] kind = "EveDynamicGestureDefinition" ->
            2 + EVE_MAX_DYNAMIC_GESTURE_SEQUENCE
      [] kind = "EveHandDetections" ->
            3 + WordsCRect + WordsEveSingleHandDetection * EVE_MAX_HAND_DETECTIONS
      [] kind = "CCameraFormat" -> 4 + WordsCResolution
      [] kind = "CCamera" -> WordsCCamera

\* Reading a structure of the given kind from a buffer of its size: every
\* field is taken as its ctypes type gives it, and nothing raises.
from_buffer_copy(kind, w) ==
    [error |-> "none",
     kind |-> kind,
     record |->
        CASE kind = "EveStaticGestures" -> EveStaticGestures(w)
          [] kind = "EveDynamicGestures" -> EveDynamicGestures(w)
          [] kind = "EveDynamicGestureDefinition" -> EveDynamicGestureDefinition(w)
          [] kind = "EveHandDetections" -> EveHandDetections(w)
          [] kind = "CCameraFormat" -> CCameraFormat(w)
          [] kind = "CCamera" -> CCamera(w)]

\* --------------------------------------------------------- sampled buffers
Zero == <<0, 0, 0, 0>>
W(b) == <<b, 0, 0, 0>>
MinusOne == <<255, 255, 255, 255>>

\* Count words: 0, 3, the capacity 8, 9, and 2^31 - 1.
CountWords == {Zero, W(3), W(8), W(9), <<255, 255, 255, 127>>}
StaticTypeWords == {Zero, W(12), W(22), W(23), W(99), MinusOne}
DynamicTypeWords == {Zero, W(4), W(19), W(20), W(99)}
QualityWords == {Zero, W(2), W(3)}
CompareWords == {Zero, W(2), W(3), MinusOne}

\* A buffer of n words: the header words, then the array, whose first
\* NumFilled elements are elems[1], elems[2], ... and whose other elements
\* are zero.
ArrayBuffer(n, header, size, elems) ==
    [k \in 1..n |->
        IF k <= Len(header) THEN header[k]
        ELSE LET i == ((k - Len(header) - 1) \div size) + 1
                 j == ((k - Len(header) - 1) % size) + 1
             IN  IF i <= NumFilled THEN elems[i][j] ELSE Zero]

StaticGesturesBuffers ==
    {ArrayBuffer(WordsOf("EveStaticGestures"), <<c>>, WordsEveStaticGesture,
                 [i \in 1..NumFilled |-> <<Zero, Zero, t[i], Zero, q[i]>>]) :
        <<c, t, q>> \in CountWords \X [1..NumFilled -> StaticTypeWords]
                          \X [1..NumFilled -> QualityWords]}

DynamicGesturesBuffers ==
    {ArrayBuffer(WordsOf("EveDynamicGestures"), <<c>>, WordsEveDynamicGesture,
                 [i \in 1..NumFilled |-> <<Zero, Zero, t[i], q[i]>>]) :
        <<c, t, q>> \in CountWords \X [1..NumFilled -> DynamicTypeWords]
                          \X [1..NumFilled -> QualityWords]}

DynamicGestureDefinitionBuffers ==
    {ArrayBuffer(WordsOf("EveDynamicGestureDefinition"), <<g, c>>, 1,
                 [i \in 1..NumFilled |-> <<t[i]>>]) :
        <<g, c, t>> \in {W(10), W(19), W(99)} \X CountWords
                          \X [1..NumFilled -> StaticTypeWords]}

HandDetectionsBuffers ==
    {ArrayBuffer(WordsOf("EveHandDetections"),
                 <<Zero, r, Zero, Zero, Zero, Zero, c>>,
                 WordsEveSingleHandDetection,
                 [i \in 1..NumFilled |->
                    [j \in 1..WordsEveSingleHandDetection |->
                        IF j = 1 THEN id[i] ELSE Zero]]) :
        <<r, c, id>> \in {Zero, W(1)} \X CountWords
                           \X [1..NumFilled -> {W(1), W(7)}]}

CameraFormatBuffers ==
    {<<Zero, Zero, Zero, Zero, cr, cf>> :
        <<cr, cf>> \in CompareWords \X CompareWords}

\* Camera names: empty, "cam" and zero padding, and a name that fills all
\* CAMERA_NAME_SIZE bytes with no terminating zero and bytes above 127.
NameWords ==
    {[i \in 1..(CAMERA_NAME_SIZE \div 4) |-> Zero],
     [i \in 1..(CAMERA_NAME_SIZE \div 4) |->
        IF i = 1 THEN <<99, 97, 109, 0>> ELSE Zero],
     [i \in 1..(CAMERA_NAME_SIZE \div 4) |-> <<200, 65, 255, 128>>]}

CameraBuffers ==
    {<<id>> \o <<W(5), <<172, 4, 0, 0>>>> \o <<<<109, 4, 0, 0>>, Zero>> \o n
            \o <<hw, Zero, ir>> :
        <<id, n, hw, ir>> \in {W(1), MinusOne} \X NameWords
                                \X {Zero, W(1)} \X {Zero, W(1)}}

BuffersOf(kind) ==
    CASE kind = "EveStaticGestures" -> StaticGesturesBuffers
      [] kind = "EveDynamicGestures" -> DynamicGesturesBuffers
      [] kind = "EveDynamicGestureDefinition" -> DynamicGestureDefinitionBuffers
      [] kind = "EveHandDetections" -> HandDetectionsBuffers
      [] kind = "CCameraFormat" -> CameraFormatBuffers
      [] kind = "CCamera" -> CameraBuffers

\* ------------------------------------------------- the codec specification
InitCodec ==
    /\ \E kind \in RecordKinds : \E w \in BuffersOf(kind) :
           buffer = {[kind |-> kind, words |-> w]}
    /\ decoded = {}
    /\ encoded = {}
    /\ NoReader
    /\ features = EmptyMap
    /\ fpgaState = EmptyMap
    /\ refreshed = FALSE
    /\ stable = FALSE
    /\ repeated = FALSE
    /\ configured = {}
    /\ fpgaEnabled = FALSE
    /\ pc = "codec"
    /\ commands = <<>>
    /\ results = EmptyMap
    /\ pollStatus = "none"
    /\ trace = <<>>
    /\ applied = {}
    /\ toggled = FALSE
    /\ sameConfig = FALSE
    /\ sameCmds = FALSE

\* The buffer of one frame is read as a structure of its kind.
Decode ==
    /\ decoded = {}
    /\ \E b \in buffer : decoded' = {from_buffer_copy(b.kind, b.words)}
    /\ UNCHANGED <<buffer, encoded, features, fpgaState, fpgaEnabled, pc,
                   commands, results, pollStatus, trace, applied, toggled,
                   sameConfig, sameCmds, refreshed, stable, repeated,
                   configured>>
    /\ UNCHANGED readerVars

\* bytes(structure): the memory of the structure read before.
Encode ==
    /\ encoded = {}
    /\ \E d \in decoded : encoded' = {bytes(d.kind, d.record)}
    /\ UNCHANGED <<buffer, decoded, features, fpgaState, fpgaEnabled, pc,
                   commands, results, pollStatus, trace, applied, toggled,
                   sameConfig, sameCmds, refreshed, stable, repeated,
                   configured>>
    /\ UNCHANGED readerVars

NextCodec == Decode \/ Encode

SpecCodec == InitCodec /\ [][NextCodec]_vars

\* ================================================ getFpgaState, statement
\* ================================================ by statement
\* One getFpgaState call followed through its loop while another thread of
\* the surrounding application refreshes the cache. The refresh replaces
\* self._fpgaState by a new snapshot in one step.

\* Number of pipeline types (a prefix of TypeOrder) the snapshots of this
\* specification may hold, and number of refreshes during one call.
NumReaderTypes == 2
MaxRefreshes == 1

\* type_to_feature.items(), in the order the dict literal lists them.
TableOrder == <<"PT_FD", "PT_LM_FV", "PT_FID", "PT_PD", "PT_HD">>

ReaderTypes == {TypeOrder[i] : i \in 1..NumReaderTypes}

ReaderSnapshots == UNION {[T -> Settings] : T \in SUBSET ReaderTypes}

reconcilerVars ==
    <<features, fpgaEnabled, pc, commands, results, pollStatus, trace,
      applied, toggled, sameConfig, sameCmds, refreshed, stable, repeated,
      configured>>

InitReader ==
    /\ fpgaState \in ReaderSnapshots
    /\ seen = {fpgaState}
    /\ readerIdx = 1
    /\ readerPhase = "check"
    /\ features_state = EmptyMap
    /\ features = EmptyMap
    /\ refreshed = TRUE
    /\ stable = FALSE
    /\ repeated = FALSE
    /\ configured = {}
    /\ fpgaEnabled = TRUE
    /\ pc = "reader"
    /\ commands = <<>>
    /\ results = EmptyMap
    /\ pollStatus = "none"
    /\ trace = <<>>
    /\ applied = {}
    /\ toggled = FALSE
    /\ sameConfig = FALSE
    /\ sameCmds = FALSE
    /\ buffer = {}
    /\ decoded = {}
    /\ encoded = {}

\* The loop goes on to the next item, or ends and the dict is returned.
ReaderAdvance ==
    /\ readerIdx' = readerIdx + 1
    /\ readerPhase' = IF readerIdx = Len(TableOrder) THEN "done" ELSE "check"

\* if pipeline_type in self._fpgaState:
ReaderCheck ==
    /\ pc = "reader"
    /\ readerPhase = "check"
    /\ IF TableOrder[readerIdx] \in DOMAIN fpgaState
       THEN readerPhase' = "fetch" /\ UNCHANGED readerIdx
       ELSE ReaderAdvance
    /\ UNCHANGED <<fpgaState, features_state, seen>>
    /\ UNCHANGED reconcilerVars
    /\ UNCHANGED codecVars

\* feature_settings = self._fpgaState[pipeline_type], a KeyError when the
\* cache no longer has the key; then the entry is built from
\* feature_settings.
ReaderFetch ==
    /\ pc = "reader"
    /\ readerPhase = "fetch"
    /\ LET pipeline_type == TableOrder[readerIdx] IN
       IF pipeline_type \in DOMAIN fpgaState
       THEN /\ features_state' =
                   features_state @@
                   (type_to_feature[pipeline_type] :>
                       [enabled |-> bool(enabled_value(fpgaState[pipeline_type])),
                        max_ips |-> fpgaState[pipeline_type].CS_IPS])
            /\ ReaderAdvance
       ELSE /\ readerPhase' = "raised"
            /\ UNCHANGED <<readerIdx, features_state>>
    /\ UNCHANGED <<fpgaState, seen>>
    /\ UNCHANGED reconcilerVars
    /\ UNCHANGED codecVars

\* Another thread's refresh replaces the snapshot while the call runs.
ReaderRefresh ==
    /\ pc = "reader"
    /\ readerPhase \in {"check", "fetch"}
    /\ Cardinality(seen) <= MaxRefreshes
    /\ \E snapshot \in ReaderSnapshots \ seen :
        /\ fpgaState' = snapshot
        /\ seen' = seen \cup {snapshot}
    /\ UNCHANGED <<readerIdx, readerPhase, features_state>>
    /\ UNCHANGED reconcilerVars
    /\ UNCHANGED codecVars

NextReader == ReaderCheck \/ ReaderFetch \/ ReaderRefresh

SpecReader == InitReader /\ [][NextReader]_vars

\* ======================================================= toggle_feature
\* toggle_feature called a few times in a row on a features map, with no
\* other statement between the calls.

\* Number of toggle_feature calls in a row.
MaxToggles == 2

\* Features maps as run_test_program can hold them after reconcile passes:
\* any names of the config file, each with or without max_ips.
ToggleMaps ==
    UNION {[K -> [enabled : BOOLEAN, max_ips : Opt(IpsValues)]] :
              K \in SUBSET CfgNames}

\* The keys the commands '1'..'7' of run_configuration_mode pass.
ToggleKeys == {FeatureOrder[i] : i \in 1..Len(FeatureOrder)}

InitToggle ==
    /\ features \in ToggleMaps
    /\ applied = {features}
    /\ trace = <<>>
    /\ pc = "toggle"
    /\ fpgaState = EmptyMap
    /\ fpgaEnabled = FALSE
    /\ commands = <<>>
    /\ results = EmptyMap
    /\ pollStatus = "none"
    /\ toggled = FALSE
    /\ sameConfig = FALSE
    /\ sameCmds = FALSE
    /\ refreshed = FALSE
    /\ stable = FALSE
    /\ repeated = FALSE
    /\ configured = {}
    /\ buffer = {}
    /\ decoded = {}
    /\ encoded = {}
    /\ NoReader

\* toggle_feature(feature_key); trace keeps the key and the returned value.
Toggle ==
    /\ pc = "toggle"
    /\ Len(trace) < MaxToggles
    /\ \E feature_key \in ToggleKeys :
        /\ features' = toggle_feature(features, feature_key)
        /\ trace' = Append(trace,
                       [key |-> feature_key,
                        returned |-> toggle_feature_returns(features, feature_key)])
    /\ UNCHANGED <<fpgaState, fpgaEnabled, pc, commands, results, pollStatus,
                   applied, toggled, sameConfig, sameCmds, refreshed, stable,
                   repeated, configured>>
    /\ UNCHANGED codecVars
    /\ UNCHANGED readerVars

NextToggle == Toggle

SpecToggle == InitToggle /\ [][NextToggle]_vars

\* ---------------------------------------------------------------- helpers
\* The features map the latest configureFpga call was given.
Applied == CHOOSE m \in applied : TRUE

CycleSteps == <<"dispatch", "settle", "poll", "reconcile">>

IsPrefix(s, t) == Len(s) <= Len(t) /\ \A i \in 1..Len(s) : s[i] = t[i]

\* A whole cycle of apply_feature_configuration has just ended.
Reconciled == pc = "menu" /\ trace = CycleSteps

\* configureFpga has just returned (at start-up, or in a cycle before the
\* sleep).
JustDispatched == trace = <<"dispatch">>

KnownFeatures == DOMAIN features \cap TableFeatures

HasEnableCommand(f) ==
    \E i \in 1..Len(commands) :
        commands[i] = Cmd(pipelineFor(f), "CS_ENABLED",
                          IF features[f].enabled THEN 1 ELSE 0)

\* ------------------------------------------------------------------ claims
\* C1: a reconcile pass leaves the entry of every feature whose pipeline type
\* is absent from the snapshot (or that has no pipeline type at all) exactly
\* as it was when the cycle began: same enabled, same max_ips.
C1_AbsentPipelineUntouched ==
    Reconciled =>
        \A f \in DOMAIN features :
            (f \notin TableFeatures \/ pipelineFor(f) \notin DOMAIN fpgaState)
                => features[f] = Applied[f]

\* A pass that rewrote face_detection and left hand_landmarks, whose pipeline
\* the snapshot lacks, enabled as the caller set it.
C1_Witness ==
    /\ Reconciled
    /\ {"face_detection", "hand_landmarks"} \subseteq DOMAIN features
    /\ "PT_HD" \notin DOMAIN fpgaState
    /\ features["hand_landmarks"].enabled
    /\ features["face_detection"] # Applied["face_detection"]

\* C2: after a reconcile pass every feature of the desired map that is in
\* the capability table and whose pipeline type is in the snapshot has
\* enabled equal to the reported CS_ENABLED as a boolean and, when the
\* snapshot carries CS_IPS, max_ips equal to the reported CS_IPS.
C2_HardwareIsAuthoritative ==
    Reconciled =>
        \A f \in KnownFeatures :
            pipelineFor(f) \in DOMAIN fpgaState =>
                LET reported == fpgaState[pipelineFor(f)] IN
                /\ \A v \in reported.CS_ENABLED : features[f].enabled = (v # 0)
                /\ \A v \in reported.CS_IPS : features[f].max_ips = {v}

\* desired face_detection enabled, snapshot {PT_FD: {CS_ENABLED: 1, CS_IPS: 15}}
\* gives face_detection enabled = true, max_ips = 15.
C2_Witness ==
    /\ Reconciled
    /\ pollStatus = "ok"
    /\ "face_detection" \in DOMAIN features
    /\ Applied["face_detection"] = [enabled |-> TRUE, max_ips |-> {}]
    /\ fpgaState = [pt \in {"PT_FD"} |-> [CS_ENABLED |-> {1}, CS_IPS |-> {15}]]
    /\ features["face_detection"] = [enabled |-> TRUE, max_ips |-> {15}]

\* C3: when the poll of a cycle fails, by an exception or by returning
\* without a refresh, the cache keeps the previous snapshot and the desired
\* map stays exactly as it was before the poll until the next command (no
\* reconcile step takes effect in that cycle).
C3_PollFailureChangesNothing ==
    [][/\ (pc = "poll" /\ pollStatus' = "timeout") => fpgaState' = fpgaState
       /\ (pollStatus = "timeout" /\ pc # "menu") => features' = features]_vars

\* C4: in a batch in which the write of some feature is refused or times
\* out, that feature's result says so and the commands of every other table
\* feature of the batch are dispatched all the same.
C4_RefusalDoesNotStopBatch ==
    (JustDispatched /\ \E g \in KnownFeatures : results[g] # "Accepted") =>
        /\ DOMAIN results = DOMAIN features
        /\ \A f \in KnownFeatures :
               results[f] \in WriteOutcomes /\ HasEnableCommand(f)

\* face_detection is refused, hand_landmarks (after it in the batch) is sent.
C4_Witness ==
    /\ pc = "sleep"
    /\ {"face_detection", "hand_landmarks"} \subseteq DOMAIN features
    /\ results["face_detection"] = "Rejected"
    /\ results["hand_landmarks"] = "Accepted"
    /\ HasEnableCommand("hand_landmarks")

\* C5: a feature of the desired map with no entry in the capability table is
\* reported as UnknownFeature, no command is dispatched for it, and the
\* commands of every table feature of the batch are dispatched.
C5_UnknownFeatureSkipped ==
    JustDispatched =>
        \A f \in DOMAIN features \ TableFeatures :
            /\ results[f] = "UnknownFeature"
            /\ \A i \in 1..Len(commands) :
                   \E g \in KnownFeatures : commands[i].pipeline = pipelineFor(g)
            /\ \A g \in KnownFeatures : HasEnableCommand(g)

\* object_detection is reported unknown, hand_landmarks (after it in the
\* map) is still sent.
C5_Witness ==
    /\ pc = "sleep"
    /\ {"object_detection", "hand_landmarks"} \subseteq DOMAIN features
    /\ features["object_detection"].enabled
    /\ results["object_detection"] = "UnknownFeature"
    /\ HasEnableCommand("hand_landmarks")
    /\ Len(commands) = 1

\* C6: on the FPGA path the steps of a cycle occur in the order dispatch,
\* settle delay, poll, reconcile: no poll without the settle delay after the
\* dispatch, no reconcile before the poll of the same cycle.
C6_StepsInOrder ==
    fpgaEnabled =>
        /\ IsPrefix(trace, CycleSteps)
        /\ pollStatus # "none" => Len(trace) >= 3
        /\ pc = "reconcile" => trace = <<"dispatch", "settle", "poll">>

C6_Witness == Reconciled /\ pollStatus = "ok" /\ commands # <<>>

\* C7: an apply with an empty delta (no feature changed since the latest
\* dispatch, or an empty desired map) dispatches no hardware command and
\* leaves the hardware state cache unchanged.
C7_EmptyDeltaIsNoOp ==
    [][/\ (pc = "apply" /\ fpgaEnabled
              /\ ((applied = {features} /\ ~toggled) \/ features = EmptyMap))
           => commands' = <<>>
       /\ (pc = "poll" /\ (sameConfig \/ features = EmptyMap))
           => fpgaState' = fpgaState]_vars

CountOf(b) ==
    CASE b.kind = "EveStaticGestures" -> c_uint(b.words[1])
      [] b.kind = "EveDynamicGestures" -> c_uint(b.words[1])
      [] b.kind = "EveDynamicGestureDefinition" -> c_uint(b.words[2])
      [] b.kind = "EveHandDetections" -> c_uint(b.words[3 + WordsCRect])
      [] OTHER -> 0

CapacityOf(b) ==
    IF b.kind = "EveDynamicGestureDefinition"
    THEN EVE_MAX_DYNAMIC_GESTURE_SEQUENCE
    ELSE EVE_MAX_HAND_DETECTIONS

\* C9: decoding a record whose count field exceeds the capacity of its array
\* fails with CountExceedsCapacity; the count is never accepted as it is.
C9_CountAboveCapacityRejected ==
    \A b \in buffer : \A d \in decoded :
        CountOf(b) > CapacityOf(b) => d.error = "CountExceedsCapacity"

\* Some enum field of a counted entry of the decoded structure holds an
\* integer with no member in its enum class.
HasInvalidEnum(d) ==
    CASE d.kind = "EveStaticGestures" ->
            \E i \in 1..EVE_MAX_HAND_DETECTIONS :
                /\ i <= d.record.count
                /\ \/ d.record.gestures[i].type \notin EveStaticGestureType
                   \/ d.record.gestures[i].quality \notin EveGestureQuality
      [] d.kind = "EveDynamicGestures" ->
            \E i \in 1..EVE_MAX_HAND_DETECTIONS :
                /\ i <= d.record.count
                /\ \/ d.record.gestures[i].type \notin EveDynamicGestureType
                   \/ d.record.gestures[i].quality \notin EveGestureQuality
      [] d.kind = "EveDynamicGestureDefinition" ->
            \/ d.record.gestureType \notin EveDynamicGestureType
            \/ \E i \in 1..EVE_MAX_DYNAMIC_GESTURE_SEQUENCE :
                /\ i <= d.record.sequenceCount
                /\ d.record.gestureSequence[i] \notin EveStaticGestureType
      [] d.kind = "CCameraFormat" ->
            \/ d.record.compareResolution \notin EveCompare
            \/ d.record.compareFps \notin EveCompare
      [] OTHER -> FALSE

\* C10: decoding a record in which an enum field (gesture type, gesture
\* quality, comparison mode) holds an integer outside its declared domain
\* fails with InvalidEnumValue; no such record is returned.
C10_InvalidEnumRejected ==
    \A b \in buffer : \A d \in decoded :
        (CountOf(b) <= CapacityOf(b) /\ HasInvalidEnum(d))
            => d.error = "InvalidEnumValue"

\* The integers that name a member of an enum class, and whether every
\* member of the class has a value of its own.
ValuesOf(members) == {members[n] : n \in DOMAIN members}

NoAlias(members) ==
    \A m, n \in DOMAIN members : members[m] = members[n] => m = n

\* C11: the declared domain of the static gesture type is exactly 0..22 and
\* that of the dynamic gesture type exactly 0..19, every value a member of
\* its own; a decoded type field is a member exactly when it lies in that
\* range, so the size sentinels 23 and 20 are not members.
C11_GestureTypeDomains ==
    /\ NoAlias(EveStaticGestureTypeMembers)
    /\ NoAlias(EveDynamicGestureTypeMembers)
    /\ ValuesOf(EveStaticGestureTypeMembers) = 0..(EVE_STATIC_GESTURE_SIZE - 1)
    /\ ValuesOf(EveDynamicGestureTypeMembers) = 0..(EVE_DYNAMIC_GESTURE_SIZE - 1)
    /\ \A d \in decoded :
        /\ d.kind = "EveStaticGestures" =>
              (d.record.gestures[1].type \in ValuesOf(EveStaticGestureTypeMembers)
                  <=> d.record.gestures[1].type \in 0..(EVE_STATIC_GESTURE_SIZE - 1))
        /\ d.kind = "EveDynamicGestures" =>
              (d.record.gestures[1].type \in ValuesOf(EveDynamicGestureTypeMembers)
                  <=> d.record.gestures[1].type \in 0..(EVE_DYNAMIC_GESTURE_SIZE - 1))

\* A buffer of the size of its kind whose counts are within capacity and
\* whose enum fields hold members, read as the structure d.
WellFormed(b, d) ==
    /\ Len(b.words) = WordsOf(b.kind)
    /\ CountOf(b) <= CapacityOf(b)
    /\ ~HasInvalidEnum(d)

C13_EmptyBeforeFirstRefresh ==
    ~refreshed =>
        /\ fpgaState = EmptyMap
        /\ getFpgaState(fpgaState) = EmptyMap
        /\ Reconciled => features = Applied

\* A whole cycle whose poll did not refresh the cache ran its reconcile pass
\* over a desired map with an enabled table feature.
C13_Witness ==
    /\ ~refreshed
    /\ Reconciled
    /\ pollStatus = "timeout"
    /\ "face_detection" \in DOMAIN features
    /\ features["face_detection"].enabled

\* C14: a getFpgaState call that runs while the cache is refreshed returns a
\* feature map derived entirely from one snapshot the cache held during the
\* call, the old one or the new one, across all pipeline types and across
\* the CS_ENABLED / CS_IPS settings of one pipeline; it does not fail.
C14_ReaderSeesOneSnapshot ==
    /\ readerPhase # "raised"
    /\ readerPhase = "done" =>
          \E snapshot \in seen : features_state = getFpgaState(snapshot)

\* The positions of one apply_feature_configuration call, and the position
\* each is followed by when the call goes on.
InCycle == pc \in {"apply", "sleep", "poll", "reconcile"}

\* C15: at most one cycle is in flight: a cycle starts only from the
\* configuration loop waiting for a command, a running cycle only moves to
\* its own next step or back to the loop, and no toggle operation is applied
\* to the desired map between the steps of a running cycle.
C15_OneCycleInFlight ==
    [][/\ pc' = "apply" => pc = "menu"
       /\ InCycle =>
            /\ pc' \in {"sleep", "poll", "reconcile", "menu"}
            /\ toggled' => toggled
            /\ features' # features => pc = "reconcile"]_vars

\* A second cycle has been started by a toggle after the cycle before it
\* went through all its steps and returned to the loop.
C15_Witness ==
    /\ pc = "apply"
    /\ toggled
    /\ applied # {}
    /\ refreshed
    /\ features # Applied

\* C16: the desired map is changed only by an explicit toggle operation of
\* the configuration loop and by the reconcile pass; dispatch, the settle
\* wait, the poll and the software configure path leave every entry as it
\* is.
C16_DesiredMapWriters ==
    [][features' # features =>
          \/ pc = "menu" /\ pc' = "apply"
          \/ /\ pc = "reconcile"
             /\ features' = UpdateFeatures(features, getFpgaState(fpgaState))]_vars

\* On the software path a configure call has returned with an unknown
\* feature still enabled in the desired map.
C16_Witness ==
    /\ ~fpgaEnabled
    /\ pc = "menu"
    /\ trace = <<"configure">>
    /\ "object_detection" \in DOMAIN features
    /\ features["object_detection"].enabled

\* C17: the hardware state cache is written only by the poll step:
\* toggles, dispatch, the settle wait and the reconcile pass leave the
\* cached snapshot as it is.
C17_CacheWrittenByPollOnly ==
    [][fpgaState' # fpgaState => pc = "poll" /\ pollStatus' = "ok"]_vars

\* A later cycle has dispatched commands for a pipeline and waited, and the
\* cache still holds the snapshot of the poll before.
C17_Witness ==
    /\ pc = "poll"
    /\ refreshed
    /\ "PT_FD" \in DOMAIN fpgaState
    /\ \E i \in 1..Len(commands) : commands[i].pipeline = "PT_FD"

\* The positions of the controller: start-up, the configuration loop and
\* the steps of a cycle.
ControllerPositions ==
    {"start", "menu", "apply", "sleep", "poll", "reconcile"}

\* A step of the running or latest cycle has failed: a write was refused or
\* timed out, or the poll failed.
StepFailed ==
    \/ \E f \in DOMAIN results : results[f] \in {"Rejected", "Timeout"}
    \/ pollStatus = "timeout"

\* C18: no failure of a step ends the controller: after a failed step the
\* controller is still at one of its positions, and once back in the
\* configuration loop it accepts the next command.
C18_FailureKeepsControllerRunning ==
    StepFailed =>
        /\ pc \in ControllerPositions
        /\ pc = "menu" => ENABLED CmdEnableAll

\* poll_settings raised after the commands were dispatched and the
\* controller is back in the configuration loop.
C18_Witness ==
    /\ pc = "menu"
    /\ pollStatus = "timeout"
    /\ trace = <<"dispatch", "settle", "poll">>
    /\ commands # <<>>

\* featureFor of the capability table.
featureFor(pt) == type_to_feature[pt]

C20_CycleEnds == InCycle ~> (pc = "menu")

\* A cycle whose poll timed out has ended all the same.
C20_Witness ==
    /\ pc = "menu"
    /\ Len(trace) = Len(CycleSteps)
    /\ pollStatus = "timeout"
    /\ refreshed

\* C21: when a pipeline type is in the snapshot and its settings carry no
\* CS_ENABLED value, getFpgaState reports the feature as not enabled and the
\* reconcile pass sets the desired entry to not enabled, whatever was
\* dispatched.
C21_MissingEnabledReadsFalse ==
    Reconciled =>
        \A f \in KnownFeatures :
            (/\ pipelineFor(f) \in DOMAIN fpgaState
             /\ fpgaState[pipelineFor(f)].CS_ENABLED = {})
                => /\ ~getFpgaState(fpgaState)[f].enabled
                   /\ ~features[f].enabled

\* face_detection was dispatched enabled, the poll returned PT_FD without
\* CS_ENABLED, and the pass switched face_detection off.
C21_Witness ==
    /\ Reconciled
    /\ pollStatus = "ok"
    /\ "face_detection" \in DOMAIN features
    /\ Applied["face_detection"].enabled
    /\ "PT_FD" \in DOMAIN fpgaState
    /\ fpgaState["PT_FD"].CS_ENABLED = {}
    /\ ~features["face_detection"].enabled

\* The snapshot does not report CS_IPS for feature f.
NoReportedIps(f) ==
    \/ f \notin TableFeatures
    \/ pipelineFor(f) \notin DOMAIN fpgaState
    \/ fpgaState[pipelineFor(f)].CS_IPS = {}

\* C22: no step adds a feature name to the desired map or removes one, and
\* none removes a max_ips key: max_ips changes only in a reconcile pass whose
\* snapshot reports CS_IPS for the feature, and a snapshot without CS_IPS
\* leaves the earlier max_ips value in place.
C22_NamesAndMaxIpsKept ==
    [][/\ DOMAIN features' = DOMAIN features
       /\ \A f \in DOMAIN features :
            /\ features[f].max_ips # {} => features'[f].max_ips # {}
            /\ (pc # "reconcile" \/ NoReportedIps(f))
                  => features'[f].max_ips = features[f].max_ips]_vars

\* An earlier pass set max_ips of face_detection, and a later pass over a
\* snapshot whose PT_FD entry has no CS_IPS has left the value in place.
C22_Witness ==
    /\ Reconciled
    /\ pollStatus = "ok"
    /\ "face_detection" \in DOMAIN features
    /\ "PT_FD" \in DOMAIN fpgaState
    /\ fpgaState["PT_FD"].CS_IPS = {}
    /\ features["face_detection"].max_ips = {15}

\* C23: the reconcile pass is idempotent for a fixed snapshot: a pass over
\* the map a pass has produced, against the same snapshot, changes nothing;
\* and the pass of a cycle that follows a reconciled cycle with no toggle
\* operation and an unchanged snapshot leaves the desired map unchanged.
C23_ReconcileIdempotent ==
    [][pc = "reconcile" =>
          /\ UpdateFeatures(features', getFpgaState(fpgaState)) = features'
          /\ stable => features' = features]_vars

\* A second cycle, started by a command that toggled nothing and polled
\* with the same snapshot as the cycle before it, has run its pass over a
\* map the first pass had rewritten.
C23_Witness ==
    /\ Reconciled
    /\ repeated
    /\ pollStatus = "ok"
    /\ "face_detection" \in DOMAIN features
    /\ "PT_FD" \in DOMAIN fpgaState
    /\ fpgaState["PT_FD"] = [CS_ENABLED |-> {0}, CS_IPS |-> {15}]
    /\ features["face_detection"] = [enabled |-> FALSE, max_ips |-> {15}]

\* C24: one toggle_feature call on a key of the map negates that feature's
\* enabled flag, returns true and leaves every other feature and every
\* max_ips value as it was; on a key that is not in the map it returns false
\* and leaves the whole map as it was; two calls in a row on the same key
\* restore the original map.
C24_ToggleFeature ==
    /\ Len(trace) = 1 =>
          LET key == trace[1].key IN
          IF key \in DOMAIN Applied
          THEN /\ trace[1].returned
               /\ DOMAIN features = DOMAIN Applied
               /\ features[key].enabled = ~Applied[key].enabled
               /\ \A f \in DOMAIN Applied :
                     /\ features[f].max_ips = Applied[f].max_ips
                     /\ f # key => features[f] = Applied[f]
          ELSE ~trace[1].returned /\ features = Applied
    /\ (Len(trace) = 2 /\ trace[1].key = trace[2].key) => features = Applied

\* face_detection, enabled with max_ips 15 beside an enabled hand_landmarks,
\* was toggled twice: both calls returned true and the map is the original.
C24_Witness ==
    /\ pc = "toggle"
    /\ Len(trace) = 2
    /\ trace[1] = [key |-> "face_detection", returned |-> TRUE]
    /\ trace[2] = trace[1]
    /\ "hand_landmarks" \in DOMAIN features
    /\ features["hand_landmarks"].enabled
    /\ features["face_detection"] = [enabled |-> TRUE, max_ips |-> {15}]

\* C25: when the FPGA is not enabled, applying the configuration calls
\* configure with the desired map and returns to the loop with no settle
\* wait, no poll and no reconcile pass: the cache and the desired map are
\* as they were before the apply, and no hardware command is dispatched.
C25_SoftwarePathOnlyConfigures ==
    [][(pc = "apply" /\ ~fpgaEnabled) =>
          /\ configured' = {features}
          /\ pc' = "menu"
          /\ trace' = <<"configure">>
          /\ pollStatus' = "none"
          /\ features' = features
          /\ fpgaState' = fpgaState
          /\ commands' = <<>>]_vars

\* On the software path a toggle that switched face_detection off was
\* applied by a configure call with that map; the cache is still empty.
C25_Witness ==
    /\ ~fpgaEnabled
    /\ pc = "menu"
    /\ toggled
    /\ trace = <<"configure">>
    /\ "face_detection" \in DOMAIN features
    /\ ~features["face_detection"].enabled
    /\ configured = {features}
    /\ fpgaState = EmptyMap

====
